---- MODULE Spec2Model ----
(***************************************************************************)
(* LSAC status checker: the change detector (check_for_changes and         *)
(* save_status_history of LSACChecker), the token store (save_token,       *)
(* load_token), the run coordinator (main) and the notification policy     *)
(* (should_send_email, lambda_handler).                                    *)
(*                                                                         *)
(* Seven specifications share the variables of the module:                 *)
(*   SpecDetect   one target over two consecutive checks:                  *)
(*                check_for_changes and save_status_history applied to     *)
(*                drawn vendor records;                                    *)
(*   SpecPolicy   lambda_handler's notification gate over several days;    *)
(*   Spec         main(): token load, login, save and the fetch loop over  *)
(*                the registry, over several runs;                         *)
(*   SpecRegistry load_schools_from_file applied to drawn registry files;  *)
(*   SpecSubject  the output main prints and the subject line              *)
(*                lambda_handler composes from it;                         *)
(*   SpecNamedLinks load_schools_from_file applied to files of name lines, *)
(*                comments and bare links;                                 *)
(*   SpecDelivery one target over two invocations of lambda_handler: the   *)
(*                check, the save and the publish.                         *)
(* A specification leaves the variables of the others at their initial     *)
(* values.                                                                 *)
(***************************************************************************)
EXTENDS Integers, Sequences, FiniteSets, TLC

VARIABLES
    \* ---- persistent stores
    historyFile,    \* STATUS_HISTORY_FILE: [state, doc], doc: school name -> snapshot
    tokenFile,      \* TOKEN_FILE: [state, doc]
    secret,         \* the Secrets Manager record LSAC_CREDENTIALS_SECRET
    emailTracking,  \* EMAIL_TRACKING_FILE: [state, last_email_sent, last_email_had_changes]
    \* ---- clocks
    now,            \* epoch seconds (Spec); wall-clock minutes in TIMEZONE (SpecPolicy)
    \* ---- change detector, one target (SpecDetect) / the loop body of main (Spec)
    school,         \* school_name being processed
    data,           \* the vendor record get_status returned
    changes,        \* what check_for_changes returned
    histReadOk,     \* whether check_for_changes could read and parse the history
    dpc,            \* position in the per-target steps
    firstRound,     \* SpecDetect: TRUE until the target is fetched a second time
    \* ---- main()
    pc,             \* position in main
    useSecrets,     \* LSAC_CREDENTIALS_SECRET and BOTO3_AVAILABLE
    token,          \* checker.token
    guid,           \* checker.guid
    loadResult,     \* what load_token did in this run: "none", "true", "false", "raised"
    loadedDoc,      \* the document load_token read in this run (its local `data`)
    loadedAt,       \* current_time as load_token read it
    eventLog,       \* this run's calls, in order: login, save_token, get_status
    schools,        \* the registry load_schools_from_file returned, in file order
    idx,            \* index in the registry of the target being processed
    run,            \* number of the current run
    \* ---- history variables of main(), read by the claims only
    historyBefore,  \* STATUS_HISTORY_FILE as it was when the run, then each target, began
    attempted,      \* the names this run called get_status for, in order
    lastOutcome,    \* how the processing of `school` ended; "none" before and during it
    lastSaved,      \* per name, the snapshot of its most recent successful save
    persisted,      \* what save_token last persisted, and where: [wrote, doc]
    \* ---- lambda_handler
    lpc,            \* position of the handler
    hasChanges,     \* has_changes of the last handler run
    decision,       \* what should_send_email returned: [send, reason]
    response,       \* what lambda_handler returned: the status code and the body's fields
    errorNotice,    \* the except branch's publish of the error message: "none", "sent", "failed"
    seenTracking,   \* the tracking record as load_email_tracking gives it to this run
    lastSentAt,     \* true time, on the TIMEZONE clock, of the last delivered notification
    priorSentAt,    \* lastSentAt as it was when the last handler run began
    localOffset,    \* minutes the process's local clock is ahead of the TIMEZONE clock
    \* ---- the registry source (SpecRegistry)
    schoolsFile,    \* SCHOOLS_FILE: [state, lines]
    \* ---- what main printed and the subject made of it (SpecSubject)
    results,        \* per target of the run, in registry order: [name, outcome]
    output,         \* the captured stdout of main, as lines of tokens
    subject         \* lambda_handler's subject line

vars == << historyFile, tokenFile, secret, emailTracking, now, school, data, changes,
           histReadOk, dpc, firstRound, pc, useSecrets, token, guid, loadResult,
           loadedDoc, loadedAt, eventLog, schools, idx, run, historyBefore, attempted,
           lastOutcome, lastSaved, persisted, lpc, hasChanges, decision, response, seenTracking,
           lastSentAt, priorSentAt, localOffset, errorNotice, schoolsFile, results, output,
           subject >>

detectVars == << school, data, changes, histReadOk, dpc, firstRound >>
mainVars   == << pc, useSecrets, token, guid, loadResult, loadedDoc, loadedAt,
                 eventLog, schools, idx, run, historyBefore, attempted, lastOutcome,
                 lastSaved >>
auditVars  == << historyBefore, attempted, lastOutcome, lastSaved >>
policyVars == << lpc, hasChanges, decision, response, seenTracking, lastSentAt,
                 priorSentAt, localOffset, errorNotice >>
tokenStores == << tokenFile, secret, persisted >>
reportVars == << results, output, subject >>

(***************************************************************************)
(* Bounds                                                                  *)
(***************************************************************************)
\* the most programs (applicationStatus entries) in one vendor record
MaxPrograms == 2

Min(a, b) == IF a <= b THEN a ELSE b

\* sequences over S of length 0..n
SeqUpTo(S, n) == UNION { [1..k -> S] : k \in 0..n }

(***************************************************************************)
(* Vendor records (the JSON get_status returns)                            *)
(***************************************************************************)
\* the registry's names (keys of schools, keys of the history document)
Schools == {"Alpha", "Beta"}

\* an entry of status.applicationStatus without a statusDisplayDescription key
NoDesc == "<no statusDisplayDescription>"

\* app['status']['applicationStatus'], newest entry first; <<>> when the key is
\* absent or the list empty, NoDesc for an entry lacking the description
\* app['checklist'] as the isCompleted flag of each item
Apps ==
    { [applicationTitle |-> "JD", statusList |-> <<"Submitted">>,
       checklist |-> <<TRUE, TRUE, FALSE, FALSE, FALSE>>],
      [applicationTitle |-> "JD", statusList |-> <<"Under Review", "Submitted">>,
       checklist |-> <<TRUE, TRUE, TRUE, FALSE, FALSE>>],
      [applicationTitle |-> "JD", statusList |-> <<"Under Review", "Submitted">>,
       checklist |-> <<TRUE, TRUE, FALSE, FALSE, FALSE>>],
      [applicationTitle |-> "LLM", statusList |-> <<NoDesc>>,
       checklist |-> <<TRUE, TRUE, FALSE, FALSE, FALSE>>],
      [applicationTitle |-> "LLM", statusList |-> <<>>, checklist |-> <<>>] }

\* data: the applicationStatus list of the record get_status returned
Records == [applicationStatus : SeqUpTo(Apps, MaxPrograms)]

(***************************************************************************)
(* History store: save_status_history and check_for_changes                *)
(***************************************************************************)
EmptyDoc == [s \in {} |-> <<>>]

NoHistoryFile == [exists |-> FALSE, doc |-> EmptyDoc]

\* smart_open(STATUS_HISTORY_FILE, 'r') + json.load: the document, or the failure
\* (file absent, I/O error, bad JSON) that both callers catch with `except Exception`
HistoryReadable(file, ioOk) == file.exists /\ ioOk

\* sum(1 for item in app.get('checklist', []) if item.get('isCompleted'))
RECURSIVE CompletedCount(_)
CompletedCount(checklist) ==
    IF checklist = <<>> THEN 0
    ELSE (IF Head(checklist) THEN 1 ELSE 0) + CompletedCount(Tail(checklist))

\* mutant: the history stores display_status's text for an application without status
SavedStatus_DisplayDefault(app) ==
    IF app.statusList # <<>>
    THEN (IF Head(app.statusList) = NoDesc THEN "Unknown" ELSE Head(app.statusList))
    ELSE "Status information not available"

\* save_status_history's current_status of one application
SavedStatus(app) ==
    IF app.statusList # <<>>
    THEN (IF Head(app.statusList) = NoDesc THEN "Unknown" ELSE Head(app.statusList))
    ELSE "Unknown"

\* mutant: the default display_status prints for an application without status
CurrentStatus_DisplayDefault(app) ==
    IF app.statusList # <<>>
    THEN (IF Head(app.statusList) = NoDesc THEN "Unknown" ELSE Head(app.statusList))
    ELSE "Status information not available"

\* check_for_changes' current_status of one application
CurrentStatus(app) ==
    IF app.statusList # <<>>
    THEN (IF Head(app.statusList) = NoDesc THEN "Unknown" ELSE Head(app.statusList))
    ELSE "Unknown"

\* the entry save_status_history appends for one application
SavedApplication(app) ==
    [ program            |-> app.applicationTitle,
      status             |-> SavedStatus(app),
      checklist_complete |-> CompletedCount(app.checklist),
      checklist_total    |-> Len(app.checklist) ]

\* status_info: what is stored under the school's name (the timestamp and the
\* school_id, which check_for_changes never reads, are left out)
StatusInfo(rec) ==
    [ applications |->
        [ i \in 1..Len(rec.applicationStatus) |-> SavedApplication(rec.applicationStatus[i]) ] ]

\* history[school_name] = status_info
DocWith(doc, school_name, info) ==
    [ s \in DOMAIN doc \cup {school_name} |-> IF s = school_name THEN info ELSE doc[s] ]

\* save_status_history(school_name, data): the file afterwards. A failed read
\* starts from an empty history; a failed write is swallowed. (The file is
\* written by this function only, so its document is always a mapping.)
save_status_history(file, school_name, rec, readOk, writeOk) ==
    LET history == IF HistoryReadable(file, readOk) THEN file.doc ELSE EmptyDoc
    IN  IF writeOk
        THEN [exists |-> TRUE, doc |-> DocWith(history, school_name, StatusInfo(rec))]
        ELSE file

\* the `if old_app['status'] != current_status` branch
StatusEvent(app, old_app) ==
    IF old_app.status # CurrentStatus(app)
    THEN << [ type |-> "status", program |-> app.applicationTitle,
              old |-> old_app.status, new |-> CurrentStatus(app) ] >>
    ELSE << >>

\* mutant: any difference of the completed count is reported
ChecklistEvent_AnyDifference(app, old_app) ==
    LET old_complete == old_app.checklist_complete
        new_complete == CompletedCount(app.checklist)
    IN  IF new_complete # old_complete
        THEN << [ type |-> "checklist", program |-> app.applicationTitle,
                  items_completed |-> new_complete - old_complete ] >>
        ELSE << >>

\* the `if new_complete > old_complete` branch
ChecklistEvent(app, old_app) ==
    LET old_complete == old_app.checklist_complete
        new_complete == CompletedCount(app.checklist)
    IN  IF new_complete > old_complete
        THEN << [ type |-> "checklist", program |-> app.applicationTitle,
                  items_completed |-> new_complete - old_complete ] >>
        ELSE << >>

\* mutant: the checklist comparison of a program comes before its status comparison
RECURSIVE CompareFrom_ChecklistFirst(_, _, _, _)
CompareFrom_ChecklistFirst(apps, old_apps, i, acc) ==
    IF i > Len(apps) THEN acc
    ELSE IF i <= Len(old_apps)
         THEN CompareFrom_ChecklistFirst(apps, old_apps, i + 1,
                          acc \o ChecklistEvent(apps[i], old_apps[i])
                              \o StatusEvent(apps[i], old_apps[i]))
         ELSE CompareFrom_ChecklistFirst(apps, old_apps, i + 1, acc)

\* the loop `for i, app in enumerate(data.get('applicationStatus', []))`, from
\* the i-th application on (1-based here)
RECURSIVE CompareFrom(_, _, _, _)
CompareFrom(apps, old_apps, i, acc) ==
    IF i > Len(apps) THEN acc
    ELSE IF i <= Len(old_apps)
         THEN CompareFrom(apps, old_apps, i + 1,
                          acc \o StatusEvent(apps[i], old_apps[i])
                              \o ChecklistEvent(apps[i], old_apps[i]))
         ELSE CompareFrom(apps, old_apps, i + 1, acc)

\* mutant: a target seen for the first time is compared with a blank snapshot
check_for_changes_BlankBaseline(file, readOk, school_name, rec) ==
    LET blank == [ i \in 1..Len(rec.applicationStatus) |->
                     [ program |-> rec.applicationStatus[i].applicationTitle, status |-> "",
                       checklist_complete |-> 0, checklist_total |-> 0 ] ]
    IN  IF ~HistoryReadable(file, readOk) \/ school_name \notin DOMAIN file.doc
        THEN CompareFrom(rec.applicationStatus, blank, 1, << >>)
        ELSE CompareFrom(rec.applicationStatus, file.doc[school_name].applications, 1, << >>)

\* check_for_changes(school_name, data)
check_for_changes(file, readOk, school_name, rec) ==
    IF ~HistoryReadable(file, readOk) THEN << >>
    ELSE IF school_name \notin DOMAIN file.doc THEN << >>
    ELSE CompareFrom(rec.applicationStatus, file.doc[school_name].applications, 1, << >>)

(***************************************************************************)
(* Initial values of the parts a specification does not use                *)
(***************************************************************************)
NoToken     == [kind |-> "none", exp |-> 0, iat |-> 0]
\* no token document: the file's content when absent, token_data when the secret has none
NoTokenDoc  == [present |-> FALSE, token |-> NoToken, guid |-> "none",
                expires_at |-> [kind |-> "missing", v |-> 0]]
NoTokenFile == [exists |-> FALSE, doc |-> NoTokenDoc]
\* the secret as deployed: the credentials, no token_data yet
CredentialsOnly == [username |-> "user", password |-> "pass", token_data |-> NoTokenDoc]
\* save_token has not persisted anything yet
NothingPersisted == [wrote |-> "none", doc |-> NoTokenDoc]
NoTracking  == [exists |-> FALSE, last_email_sent |-> [kind |-> "none", at |-> 0],
                last_email_had_changes |-> FALSE]
NoDecision  == [send |-> FALSE, reason |-> "none"]
NoResponse  == [statusCode |-> 0, message |-> "none", changes_detected |-> FALSE,
                email_sent |-> FALSE, email_reason |-> "none", error |-> "none"]
NoRecord    == [applicationStatus |-> << >>]
NeverSent   == [sent |-> FALSE, at |-> 0]
NoSchoolsFile == [state |-> "missing", lines |-> << >>]
NoSubject   == [text |-> "none", name |-> << >>, count |-> 0]

StoresIdle ==
    /\ tokenFile = NoTokenFile
    /\ secret = CredentialsOnly
    /\ persisted = NothingPersisted
    /\ emailTracking = NoTracking

DetectIdle ==
    /\ school = "Alpha" /\ data = NoRecord /\ changes = << >>
    /\ histReadOk = FALSE /\ dpc = "idle" /\ firstRound = TRUE

MainIdle ==
    /\ pc = "idle" /\ useSecrets = FALSE /\ token = NoToken /\ guid = "none"
    /\ loadResult = "none" /\ loadedDoc = NoTokenDoc /\ loadedAt = 0
    /\ eventLog = << >> /\ schools = << >> /\ idx = 0 /\ run = 0
    /\ historyBefore = NoHistoryFile /\ attempted = << >>
    /\ lastOutcome = "none" /\ lastSaved = EmptyDoc

RegistryIdle == schoolsFile = NoSchoolsFile

ReportIdle == results = << >> /\ output = << >> /\ subject = NoSubject

PolicyIdle ==
    /\ lpc = "idle" /\ hasChanges = FALSE /\ decision = NoDecision
    /\ response = NoResponse
    /\ seenTracking = NoTracking /\ lastSentAt = NeverSent /\ priorSentAt = NeverSent
    /\ localOffset = 0
    /\ errorNotice = "none"

(***************************************************************************)
(* SpecDetect: one target, checked and saved, fetched again, checked and   *)
(* saved again (the per-target steps of two consecutive runs of main)      *)
(***************************************************************************)
OtherSchool(s) == CHOOSE o \in Schools : o # s

\* a snapshot an earlier run stored for another target
OtherSnapshot ==
    StatusInfo([applicationStatus |->
        << [applicationTitle |-> "JD", statusList |-> <<"Submitted">>,
            checklist |-> <<TRUE, TRUE, FALSE, FALSE, FALSE>>] >>])

InitDetect ==
    /\ school \in Schools
    /\ data \in Records
    /\ historyFile \in
         { NoHistoryFile,
           [exists |-> TRUE, doc |-> DocWith(EmptyDoc, OtherSchool(school), OtherSnapshot)] }
    /\ changes = << >>
    /\ histReadOk = FALSE
    /\ dpc = "fetched"
    /\ firstRound = TRUE
    /\ StoresIdle /\ MainIdle /\ PolicyIdle /\ now = 0
    /\ RegistryIdle /\ ReportIdle

\* changes = checker.check_for_changes(school_name, status)
DetectCheck ==
    /\ dpc = "fetched"
    /\ \E ioOk \in BOOLEAN :
         /\ changes' = check_for_changes(historyFile, ioOk, school, data)
         /\ histReadOk' = HistoryReadable(historyFile, ioOk)
    /\ dpc' = "checked"
    /\ UNCHANGED << historyFile, school, data, firstRound >>
    /\ UNCHANGED << tokenStores, emailTracking, now, mainVars, policyVars >>
    /\ UNCHANGED << schoolsFile, reportVars >>

\* checker.save_status_history(school_name, status)
DetectSave ==
    /\ dpc = "checked"
    /\ \E readOk \in BOOLEAN, writeOk \in BOOLEAN :
         historyFile' = save_status_history(historyFile, school, data, readOk, writeOk)
    /\ dpc' = "saved"
    /\ UNCHANGED << school, data, changes, histReadOk, firstRound >>
    /\ UNCHANGED << tokenStores, emailTracking, now, mainVars, policyVars >>
    /\ UNCHANGED << schoolsFile, reportVars >>

\* the next run's get_status for the same target
DetectRefetch ==
    /\ dpc = "saved"
    /\ firstRound
    /\ data' \in Records
    /\ firstRound' = FALSE
    /\ changes' = << >>
    /\ histReadOk' = FALSE
    /\ dpc' = "fetched"
    /\ UNCHANGED << historyFile, school >>
    /\ UNCHANGED << tokenStores, emailTracking, now, mainVars, policyVars >>
    /\ UNCHANGED << schoolsFile, reportVars >>

NextDetect == DetectCheck \/ DetectSave \/ DetectRefetch

SpecDetect == InitDetect /\ [][NextDetect]_vars

(***************************************************************************)
(* Claims about the change detector (under SpecDetect)                     *)
(***************************************************************************)
\* the previous snapshot check_for_changes compared against, when there is one
HasPrevious == histReadOk /\ historyFile.exists /\ school \in DOMAIN historyFile.doc
Prev == historyFile.doc[school].applications
Cur  == data.applicationStatus
Common == 1 .. Min(Len(Cur), Len(Prev))

\* the status text of a vendor application as the history stores it
TextOf(app) == SavedStatus(app)
\* the completed count of a vendor application
DoneOf(app) == Cardinality({ j \in DOMAIN app.checklist : app.checklist[j] })

EventsOfType(t) == SelectSeq(changes, LAMBDA e : e.type = t)
\* the position among the indexes of S, in increasing order, of index i
RankIn(S, i) == Cardinality({ j \in S : j <= i })

\* C1: check_for_changes returns an empty list whenever there is no previous
\* snapshot for the target (history absent or unreadable, or the name not a
\* key of it), whatever the current record.
C1_NoPreviousNoChanges ==
    (dpc = "checked" /\ ~HasPrevious) => changes = << >>

C1_Witness ==
    /\ dpc = "checked"
    /\ histReadOk /\ historyFile.exists /\ school \notin DOMAIN historyFile.doc
    /\ Len(Cur) = 2
    /\ changes = << >>

\* C2: for every index present in both snapshots a status event is emitted
\* iff the previous text differs from the current one, carrying the previous
\* text as old and the current text as new: the status events are exactly
\* those of the differing indexes, in index order.
StatusDiffIdx == { i \in Common : Prev[i].status # TextOf(Cur[i]) }

C2_StatusEventIffTextDiffers ==
    (dpc = "checked" /\ HasPrevious) =>
        /\ Len(EventsOfType("status")) = Cardinality(StatusDiffIdx)
        /\ \A i \in StatusDiffIdx :
             LET e == EventsOfType("status")[RankIn(StatusDiffIdx, i)]
             IN  /\ e.old = Prev[i].status
                 /\ e.new = TextOf(Cur[i])
                 /\ e.program = Cur[i].applicationTitle

C2_Witness ==
    /\ dpc = "checked" /\ HasPrevious
    /\ Len(Cur) = 2 /\ Len(Prev) = 2
    /\ StatusDiffIdx = {2}
    /\ Len(EventsOfType("status")) = 1

\* C3: for every index present in both snapshots no checklist event is emitted
\* when the current completed count is at most the previous one, and exactly
\* one, with items_completed = current - previous > 0, when it is greater.
ChecklistUpIdx == { i \in Common : DoneOf(Cur[i]) > Prev[i].checklist_complete }

C3_ChecklistEventIffAdvanced ==
    (dpc = "checked" /\ HasPrevious) =>
        /\ Len(EventsOfType("checklist")) = Cardinality(ChecklistUpIdx)
        /\ \A i \in ChecklistUpIdx :
             LET e == EventsOfType("checklist")[RankIn(ChecklistUpIdx, i)]
             IN  /\ e.items_completed = DoneOf(Cur[i]) - Prev[i].checklist_complete
                 /\ e.items_completed > 0
                 /\ e.program = Cur[i].applicationTitle

C3_Witness ==
    /\ dpc = "checked" /\ HasPrevious
    /\ Len(Cur) = 2 /\ Len(Prev) = 2
    /\ DoneOf(Cur[1]) < Prev[1].checklist_complete
    /\ DoneOf(Cur[2]) > Prev[2].checklist_complete
    /\ Len(EventsOfType("checklist")) = 1

\* the place in changes of the status event and of the checklist event of index i
StatusPlace(i) ==
    Cardinality({ j \in StatusDiffIdx : j < i }) + Cardinality({ j \in ChecklistUpIdx : j < i }) + 1
ChecklistPlace(i) ==
    Cardinality({ j \in StatusDiffIdx : j <= i }) + Cardinality({ j \in ChecklistUpIdx : j < i }) + 1

\* the scenario of one program: stored [JD, Submitted, 2 of 5 done], fetched
\* [JD, Under Review, 3 of 5 done]
ScenarioPrev ==
    [ program |-> "JD", status |-> "Submitted", checklist_complete |-> 2, checklist_total |-> 5 ]
ScenarioCur ==
    [ applicationTitle |-> "JD", statusList |-> <<"Under Review", "Submitted">>,
      checklist |-> <<TRUE, TRUE, TRUE, FALSE, FALSE>> ]
ScenarioEvents ==
    << [ type |-> "status", program |-> "JD", old |-> "Submitted", new |-> "Under Review" ],
       [ type |-> "checklist", program |-> "JD", items_completed |-> 1 ] >>

\* C18: programs are aligned by index only. Only indexes present in both
\* snapshots produce events (a current program at or beyond the previous
\* length produces none, previous programs beyond the current length produce
\* none); the events come in the order of the current programs, the status
\* event of a program before its checklist event; previous [JD, Submitted,
\* 2 done] and current [JD, Under Review, 3 done] give exactly the status
\* event followed by the checklist event with items_completed 1.
C18_IndexAlignedInProgramOrder ==
    (dpc = "checked" /\ HasPrevious) =>
        /\ Len(changes) = Cardinality(StatusDiffIdx) + Cardinality(ChecklistUpIdx)
        /\ \A i \in StatusDiffIdx :
             /\ changes[StatusPlace(i)].type = "status"
             /\ changes[StatusPlace(i)].program = Cur[i].applicationTitle
             /\ changes[StatusPlace(i)].old = Prev[i].status
             /\ changes[StatusPlace(i)].new = TextOf(Cur[i])
        /\ \A i \in ChecklistUpIdx :
             /\ changes[ChecklistPlace(i)].type = "checklist"
             /\ changes[ChecklistPlace(i)].program = Cur[i].applicationTitle
             /\ changes[ChecklistPlace(i)].items_completed
                  = DoneOf(Cur[i]) - Prev[i].checklist_complete
        /\ (Prev = <<ScenarioPrev>> /\ Cur = <<ScenarioCur>>) => changes = ScenarioEvents

\* the scenario at index 1 with a second current program beyond the previous length
C18_Witness ==
    /\ dpc = "checked" /\ HasPrevious
    /\ Prev = <<ScenarioPrev>>
    /\ Len(Cur) = 2 /\ Cur[1] = ScenarioCur
    /\ changes = ScenarioEvents

\* the target is checked for the second time, against the snapshot the first
\* run's save_status_history stored for the record fetched again now
SameRecordAgain ==
    /\ dpc = "checked" /\ ~firstRound /\ HasPrevious
    /\ Prev = StatusInfo(data).applications

\* C25: when the record fetched in a run is the one the run before fetched
\* and saved (the history read and written without failure), check_for_changes
\* reports no change: it computes the status text and the completed count
\* as save_status_history stored them.
C25_SameRecordNoChanges == SameRecordAgain => changes = << >>

\* two programs, one of them without any status entry
C25_Witness ==
    /\ SameRecordAgain
    /\ Len(Cur) = 2
    /\ Cur[1].statusList = << >> /\ Cur[2].statusList = <<NoDesc>>
    /\ changes = << >>

(***************************************************************************)
(* Notification policy: should_send_email and lambda_handler               *)
(*                                                                         *)
(* Time is the wall clock of TIMEZONE, in minutes. datetime.now() without  *)
(* a zone reads the process's local clock, localOffset minutes ahead.      *)
(***************************************************************************)
\* the most days the schedule of SpecPolicy covers
MaxDays == 2

NO_CHANGE_EMAIL_HOUR == 9

DayMinutes == 24 * 60

\* minutes of the day at which the schedule may invoke the handler
ScheduleMinutes == { 8 * 60, 8 * 60 + 30, 9 * 60, 9 * 60 + 30, 10 * 60, 15 * 60 + 30 }

Instants == { d * DayMinutes + m : d \in 0 .. (MaxDays - 1), m \in ScheduleMinutes }

\* minutes the local clock may be ahead of TIMEZONE: the same zone, UTC for the
\* default TIMEZONE America/New_York in winter, UTC for a TIMEZONE one hour
\* east of it (Europe/London in summer)
LocalOffsets == { 0, 5 * 60, -60 }

\* datetime.now(tz).hour
HourOf(t) == (t \div 60) % 24

\* datetime.now().isoformat(): a zone-less stamp of the local clock
LocalIsoStamp(t) == [kind |-> "naive", at |-> t + localOffset]

\* datetime.fromisoformat(s), then replace(tzinfo=tz) for a zone-less stamp: the
\* stamp's clock reading taken as a TIMEZONE time
ParsedAsZoneTime(stamp) == stamp.at

\* now.replace(hour=NO_CHANGE_EMAIL_HOUR, minute=0, second=0, microsecond=0).
\* Python compares two datetimes of the same tzinfo by their clock readings, so
\* the comparison with a zone-less stamp is one of wall-clock minutes.
today_9am(t) == (t \div DayMinutes) * DayMinutes + NO_CHANGE_EMAIL_HOUR * 60

\* mutant: the boundary the docstring names ("no email sent since 9am")
yesterday_9am_Today(t) == today_9am(t)

\* today_9am - timedelta(days=1)
yesterday_9am(t) == today_9am(t) - DayMinutes

\* load_email_tracking(): the document, {} when it cannot be read
load_email_tracking(file, ioOk) ==
    IF file.exists /\ ioOk THEN file ELSE NoTracking

\* mutant: the tracking record is consulted before the hour
NoChangeDecision_TrackingFirst(t, tracking) ==
    IF tracking.last_email_sent.kind = "none"
    THEN [send |-> TRUE, reason |-> "no_changes_9am_no_previous_email"]
    ELSE IF HourOf(t) # NO_CHANGE_EMAIL_HOUR
    THEN [send |-> FALSE, reason |-> "no_changes_not_9am_hour"]
    ELSE IF tracking.last_email_sent.kind # "naive"
    THEN [send |-> TRUE, reason |-> "no_changes_9am_timestamp_parse_error"]
    ELSE IF ParsedAsZoneTime(tracking.last_email_sent) < yesterday_9am(t)
    THEN [send |-> TRUE, reason |-> "no_changes_9am_daily_update"]
    ELSE [send |-> FALSE, reason |-> "no_changes_9am_but_email_sent_since_yesterday_9am"]

\* the part of should_send_email after `if has_changes`
NoChangeDecision(t, tracking) ==
    IF HourOf(t) # NO_CHANGE_EMAIL_HOUR
    THEN [send |-> FALSE, reason |-> "no_changes_not_9am_hour"]
    ELSE IF tracking.last_email_sent.kind = "none"
    THEN [send |-> TRUE, reason |-> "no_changes_9am_no_previous_email"]
    ELSE IF tracking.last_email_sent.kind # "naive"
    THEN [send |-> TRUE, reason |-> "no_changes_9am_timestamp_parse_error"]
    ELSE IF ParsedAsZoneTime(tracking.last_email_sent) < yesterday_9am(t)
    THEN [send |-> TRUE, reason |-> "no_changes_9am_daily_update"]
    ELSE [send |-> FALSE, reason |-> "no_changes_9am_but_email_sent_since_yesterday_9am"]

\* mutant: the throttle applies to every notification
should_send_email_AlwaysThrottled(has_changes, t, tracking) ==
    LET d == NoChangeDecision(t, tracking)
    IN  IF has_changes /\ d.send
        THEN [send |-> TRUE, reason |-> "changes_detected"]
        ELSE d

\* should_send_email(has_changes), at time t, with the tracking record it reads
should_send_email(has_changes, t, tracking) ==
    IF has_changes
    THEN [send |-> TRUE, reason |-> "changes_detected"]
    ELSE NoChangeDecision(t, tracking)

\* save_email_tracking(had_changes): the file afterwards; a failed write is swallowed
save_email_tracking(file, had_changes, t, writeOk) ==
    IF writeOk
    THEN [exists |-> TRUE, last_email_sent |-> LocalIsoStamp(t),
          last_email_had_changes |-> had_changes]
    ELSE file

\* a tracking document whose last_email_sent does not parse as an ISO date
GarbledTracking ==
    [exists |-> TRUE, last_email_sent |-> [kind |-> "garbled", at |-> 0],
     last_email_had_changes |-> FALSE]

InitPolicy ==
    /\ now = 8 * 60
    /\ localOffset \in LocalOffsets
    /\ emailTracking \in { NoTracking, GarbledTracking }
    /\ lpc = "idle" /\ hasChanges = FALSE /\ decision = NoDecision
    /\ response = NoResponse
    /\ errorNotice = "none"
    /\ seenTracking = NoTracking
    /\ lastSentAt = NeverSent /\ priorSentAt = NeverSent
    /\ tokenFile = NoTokenFile
    /\ secret = CredentialsOnly
    /\ persisted = NothingPersisted
    /\ historyFile = NoHistoryFile
    /\ DetectIdle /\ MainIdle
    /\ RegistryIdle /\ ReportIdle

\* the 200 response: {'message': 'Check completed successfully', 'changes_detected':
\* has_changes, 'email_sent': send_email, 'email_reason': email_reason, ...}
CheckCompleted(has_changes, d) ==
    [statusCode |-> 200, message |-> "Check completed successfully",
     changes_detected |-> has_changes, email_sent |-> d.send, email_reason |-> d.reason,
     error |-> "none"]

\* the 500 response of the except branch: {'error': str(e), 'output': output}
ErrorResponse(e) ==
    [statusCode |-> 500, message |-> "none", changes_detected |-> FALSE,
     email_sent |-> FALSE, email_reason |-> "none", error |-> e]

\* mutant: the tracking record is written before the publish call
HandlerCompletes_TrackingBeforePublish ==
    /\ lpc = "idle"
    /\ \E has_changes \in BOOLEAN, trackReadOk \in BOOLEAN,
          publishOk \in BOOLEAN, trackWriteOk \in BOOLEAN :
         LET tracking == load_email_tracking(emailTracking, trackReadOk)
             d == should_send_email(has_changes, now, tracking)
         IN  /\ hasChanges' = has_changes
             /\ priorSentAt' = lastSentAt
             /\ seenTracking' = tracking
             /\ decision' = d
             /\ emailTracking' =
                  IF d.send
                  THEN save_email_tracking(emailTracking, has_changes, now, trackWriteOk)
                  ELSE emailTracking
             /\ IF d.send /\ publishOk
                THEN /\ lastSentAt' = [sent |-> TRUE, at |-> now]
                     /\ lpc' = "returned_200"
                     /\ response' = CheckCompleted(has_changes, d)
                     /\ errorNotice' = "none"
                ELSE /\ UNCHANGED lastSentAt
                     /\ lpc' = IF d.send THEN "returned_500" ELSE "returned_200"
                     /\ response' = IF d.send THEN ErrorResponse("sns publish failed")
                                             ELSE CheckCompleted(has_changes, d)
                     /\ errorNotice' \in IF d.send THEN { "sent", "failed" } ELSE { "none" }
    /\ UNCHANGED << now, localOffset, historyFile, tokenStores, detectVars, mainVars >>
    /\ UNCHANGED << schoolsFile, reportVars >>

\* lambda_handler when lsac_main() returns: the decision, the publish, the
\* tracking write and the response. A publish that raises lands in the except
\* branch, which tries to publish the error message (with the captured output)
\* and returns 500 with the exception's text.
HandlerCompletes ==
    /\ lpc = "idle"
    /\ \E has_changes \in BOOLEAN, trackReadOk \in BOOLEAN,
          publishOk \in BOOLEAN, trackWriteOk \in BOOLEAN :
         LET tracking == load_email_tracking(emailTracking, trackReadOk)
             d == should_send_email(has_changes, now, tracking)
         IN  /\ hasChanges' = has_changes
             /\ priorSentAt' = lastSentAt
             /\ seenTracking' = tracking
             /\ decision' = d
             /\ IF d.send /\ publishOk
                THEN /\ emailTracking' =
                          save_email_tracking(emailTracking, has_changes, now, trackWriteOk)
                     /\ lastSentAt' = [sent |-> TRUE, at |-> now]
                     /\ lpc' = "returned_200"
                     /\ response' = CheckCompleted(has_changes, d)
                     /\ errorNotice' = "none"
                ELSE /\ UNCHANGED << emailTracking, lastSentAt >>
                     /\ lpc' = IF d.send THEN "returned_500" ELSE "returned_200"
                     /\ response' = IF d.send THEN ErrorResponse("sns publish failed")
                                             ELSE CheckCompleted(has_changes, d)
                     /\ errorNotice' \in IF d.send THEN { "sent", "failed" } ELSE { "none" }
    /\ UNCHANGED << now, localOffset, historyFile, tokenStores, detectVars, mainVars >>
    /\ UNCHANGED << schoolsFile, reportVars >>

\* lambda_handler when lsac_main() raises: the except branch
HandlerFails ==
    /\ lpc = "idle"
    /\ lpc' = "returned_500"
    /\ hasChanges' = FALSE /\ decision' = NoDecision /\ seenTracking' = NoTracking
    /\ response' = ErrorResponse("lsac_main failed")
    /\ errorNotice' \in { "sent", "failed" }
    /\ priorSentAt' = lastSentAt
    /\ UNCHANGED << emailTracking, lastSentAt >>
    /\ UNCHANGED << now, localOffset, historyFile, tokenStores, detectVars, mainVars >>
    /\ UNCHANGED << schoolsFile, reportVars >>

\* the schedule's next instant; the handler's locals are gone
NextInstant ==
    /\ \E t \in Instants :
         /\ t > now
         /\ \A u \in Instants : u > now => t <= u
         /\ now' = t
    /\ lpc' = "idle" /\ hasChanges' = FALSE /\ decision' = NoDecision
    /\ response' = NoResponse
    /\ errorNotice' = "none"
    /\ seenTracking' = NoTracking
    /\ priorSentAt' = lastSentAt
    /\ UNCHANGED << emailTracking, lastSentAt, localOffset >>
    /\ UNCHANGED << historyFile, tokenStores, detectVars, mainVars >>
    /\ UNCHANGED << schoolsFile, reportVars >>

NextPolicy == HandlerCompletes \/ HandlerFails \/ NextInstant

SpecPolicy == InitPolicy /\ [][NextPolicy]_vars

(***************************************************************************)
(* Claims about the notification policy (under SpecPolicy)                 *)
(***************************************************************************)
\* the handler has run should_send_email at time now
Decided == lpc # "idle" /\ decision # NoDecision

SeenStamp == seenTracking.last_email_sent

\* C4: has_changes = true yields send with reason changes_detected, at every
\* hour and for every prior notification state.
C4_ChangesAlwaysSend ==
    (Decided /\ hasChanges) =>
        decision = [send |-> TRUE, reason |-> "changes_detected"]

C4_Witness ==
    /\ Decided /\ hasChanges
    /\ HourOf(now) = NO_CHANGE_EMAIL_HOUR
    /\ SeenStamp.kind = "naive" /\ SeenStamp.at = now - 30
    /\ decision.send

\* C5: has_changes = false at an hour other than H yields no-send, for every
\* prior notification state.
C5_NoChangeOffHourNoSend ==
    (Decided /\ ~hasChanges /\ HourOf(now) # NO_CHANGE_EMAIL_HOUR) => ~decision.send

C5_Witness ==
    /\ Decided /\ ~hasChanges
    /\ HourOf(now) = NO_CHANGE_EMAIL_HOUR + 1
    /\ SeenStamp.kind = "none"
    /\ ~decision.send

C7_SendsIffNoneSinceTodaysH ==
    ( /\ Decided /\ ~hasChanges /\ HourOf(now) = NO_CHANGE_EMAIL_HOUR
      /\ localOffset = 0
      /\ priorSentAt.sent
      /\ SeenStamp = [kind |-> "naive", at |-> priorSentAt.at]
      /\ ~seenTracking.last_email_had_changes )
    => ( decision.send <=> ~(priorSentAt.at >= today_9am(now)) )

\* the handler has run and its publish call raised
PublishFailed == Decided /\ decision.send /\ lpc = "returned_500"

\* C13: the tracking record changes only in a handler run that decided to
\* send, whose publish call returned, and that ends with 200, and it then
\* holds this run's stamp and has_changes; a run that decides not to send,
\* whose publish raises or that ends in the except branch leaves it as it was.
C13_TrackingWrittenOnlyAfterDelivery ==
    [][ /\ emailTracking' # emailTracking =>
             /\ lpc = "idle" /\ lpc' = "returned_200"
             /\ decision'.send
             /\ lastSentAt' = [sent |-> TRUE, at |-> now]
             /\ emailTracking' = [exists |-> TRUE, last_email_sent |-> LocalIsoStamp(now),
                                  last_email_had_changes |-> hasChanges']
        /\ (lpc = "idle" /\ lpc' # "idle" /\ (~decision'.send \/ lpc' = "returned_500"))
             => emailTracking' = emailTracking ]_vars

C13_Witness ==
    /\ PublishFailed
    /\ lastSentAt.sent /\ lastSentAt.at < now
    /\ emailTracking.exists
    /\ emailTracking.last_email_sent = LocalIsoStamp(lastSentAt.at)

\* C14: when lsac_main() returned and only the publish call failed, the
\* response still reports the check as completed, and its status code is
\* neither that of a run whose notification went out (200) nor that of a run
\* whose check failed (500).
C14_DeliveryFailureIsDistinctOutcome ==
    PublishFailed =>
        /\ response.message = "Check completed successfully"
        /\ response.statusCode # CheckCompleted(hasChanges, decision).statusCode
        /\ response.statusCode # ErrorResponse("lsac_main failed").statusCode

\* the handler has run and delivered a no-change notification
NoChangeDelivered == lpc = "returned_200" /\ decision.send /\ ~hasChanges

\* the tracking record this run read holds the stamp save_email_tracking
\* wrote for the last delivery
SeenLastDelivery == priorSentAt.sent /\ SeenStamp = LocalIsoStamp(priorSentAt.at)

\* C21: once a notification has been delivered, a no-change notification is
\* sent again only by a run during hour H for which the last delivery is
\* before the previous day's H:00, so it comes at least 24 hours after the
\* last delivery. Stated for runs whose tracking record was written and
\* read without a store failure.
C21_NoChangeAtLeastADayApart ==
    (NoChangeDelivered /\ SeenLastDelivery) =>
        /\ HourOf(now) = NO_CHANGE_EMAIL_HOUR
        /\ priorSentAt.at < yesterday_9am(now)
        /\ now - priorSentAt.at >= DayMinutes

\* should_send_email read back, in a no-change run of hour H, the stamp
\* save_email_tracking wrote for the last delivery
ReadBackLastStamp ==
    /\ Decided /\ ~hasChanges /\ HourOf(now) = NO_CHANGE_EMAIL_HOUR
    /\ SeenLastDelivery

\* C27: the last_email_sent that save_email_tracking wrote and that
\* should_send_email reads back denotes the instant the notification was
\* sent, whatever the offset between the local clock and TIMEZONE, so the
\* decision is the comparison of the true send time with yesterday's H:00.
C27_StampDenotesSendInstant ==
    ReadBackLastStamp =>
        /\ ParsedAsZoneTime(SeenStamp) = priorSentAt.at
        /\ decision.send <=> priorSentAt.at < yesterday_9am(now)

(***************************************************************************)
(* SpecDelivery: one target over two consecutive runs of lambda_handler:   *)
(* main's fetch, check_for_changes and save_status_history, then the       *)
(* handler's decision and publish                                          *)
(***************************************************************************)
\* the vendor records get_status returns under SpecDelivery
DeliveryRecords ==
    { [applicationStatus |-> << app >>] :
        app \in { a \in Apps : a.applicationTitle = "JD" } }

InitDelivery ==
    /\ school \in Schools
    /\ data \in DeliveryRecords
    /\ historyFile \in
         { NoHistoryFile,
           [exists |-> TRUE, doc |-> DocWith(EmptyDoc, OtherSchool(school), OtherSnapshot)] }
    /\ changes = << >>
    /\ histReadOk = FALSE
    /\ dpc = "fetched"
    /\ firstRound = TRUE
    /\ StoresIdle /\ MainIdle /\ PolicyIdle /\ now = 0
    /\ RegistryIdle /\ ReportIdle

\* main has returned: lambda_handler reads the captured output, which holds the
\* alert sign iff check_for_changes returned changes, decides and publishes
RunNotifies ==
    /\ dpc = "saved"
    /\ HandlerCompletes
    /\ hasChanges' = (changes # << >>)

\* the next invocation: the handler's locals are gone, main fetches the target again
NextRunFetch ==
    /\ dpc = "saved" /\ lpc # "idle"
    /\ firstRound
    /\ data' \in DeliveryRecords
    /\ firstRound' = FALSE
    /\ changes' = << >>
    /\ histReadOk' = FALSE
    /\ dpc' = "fetched"
    /\ lpc' = "idle" /\ hasChanges' = FALSE /\ decision' = NoDecision
    /\ response' = NoResponse /\ errorNotice' = "none"
    /\ seenTracking' = NoTracking
    /\ priorSentAt' = lastSentAt
    /\ UNCHANGED << historyFile, school, emailTracking, lastSentAt, localOffset >>
    /\ UNCHANGED << tokenStores, now, mainVars >>
    /\ UNCHANGED << schoolsFile, reportVars >>

NextDelivery == DetectCheck \/ DetectSave \/ RunNotifies \/ NextRunFetch

SpecDelivery == InitDelivery /\ [][NextDelivery]_vars

(***************************************************************************)
(* Claims about detected changes and their delivery (under SpecDelivery)   *)
(***************************************************************************)
\* the handler of the run has returned and none of its publish calls went
\* through: neither the notification nor the error message of the except branch
NothingDelivered ==
    /\ dpc = "saved" /\ lpc = "returned_500"
    /\ decision.send
    /\ errorNotice = "failed"

\* C26: no detected change is lost: when a run detected changes and delivered
\* no notification, the history has not advanced past them, so that the same
\* record is reported with the same changes by the next run.
C26_UndeliveredChangeStaysDetectable ==
    (NothingDelivered /\ changes # << >>) =>
        check_for_changes(historyFile, TRUE, school, data) = changes

(***************************************************************************)
(* Token store: save_token and load_token                                  *)
(*                                                                         *)
(* Time is in epoch seconds, read as int(datetime.now().timestamp()).      *)
(***************************************************************************)
\* what the bearer token login captures can be: a JWT whose payload has an
\* exp claim, a JWT whose payload has none, a string that does not decode
TokenKinds == { "jwt_exp", "jwt_noexp", "opaque" }

\* the vendor's token issued at time t (its exp claim, when it has one, an hour on)
IssuedToken(kind, t) ==
    [kind |-> kind, exp |-> IF kind = "jwt_exp" THEN t + 60 * 60 ELSE 0, iat |-> t]

\* save_token's expires_at: the payload's exp (None when the payload has no
\* exp key), or 24 hours from now when the token does not decode
ExpiresAtOf(tok, t) ==
    IF tok.kind = "jwt_exp" THEN [kind |-> "int", v |-> tok.exp]
    ELSE IF tok.kind = "jwt_noexp" THEN [kind |-> "null", v |-> 0]
    ELSE [kind |-> "int", v |-> t + 24 * 60 * 60]

\* token_payload = {'token': self.token, 'guid': self.guid, 'expires_at': expires_at}
TokenPayload(tok, g, t) ==
    [present |-> TRUE, token |-> tok, guid |-> g, expires_at |-> ExpiresAtOf(tok, t)]

\* save_token(): the secret and the token file afterwards. With Secrets Manager
\* configured the payload goes into the secret's token_data, and to the file
\* only when that fails; a failed file write is swallowed.
\* `wrote` names the store that took the payload: "secret", "file" or "none".
save_token(sec, file, secretsOn, tok, g, t, smOk, fileOk) ==
    IF secretsOn /\ smOk
    THEN [secret |-> [sec EXCEPT !.token_data = TokenPayload(tok, g, t)], file |-> file,
          wrote |-> "secret"]
    ELSE [secret |-> sec,
          file |-> IF fileOk THEN [exists |-> TRUE, doc |-> TokenPayload(tok, g, t)]
                   ELSE file,
          wrote |-> IF fileOk THEN "file" ELSE "none"]

\* the document load_token gets hold of (its local `data`), NoTokenDoc when the
\* read fails or finds nothing: from the secret's token_data with Secrets
\* Manager configured, from the token file otherwise
LoadedTokenDoc(sec, file, secretsOn, ioOk) ==
    IF secretsOn
    THEN (IF ioOk THEN sec.token_data ELSE NoTokenDoc)
    ELSE (IF file.exists /\ ioOk THEN file.doc ELSE NoTokenDoc)

\* mutant: a token is still used at the second it expires
TokenExpired_AfterOnly(expires_at, current_time) == current_time > expires_at.v

\* `if current_time >= expires_at`, for an integer expires_at (a missing key reads as 0)
TokenExpired(expires_at, current_time) == current_time >= expires_at.v

\* load_token() on the document it read: "false" (no usable token), "true"
\* (self.token and self.guid set from it) or "raised" (`current_time >= None`
\* is a TypeError, which nothing in load_token catches)
load_token(doc, current_time) ==
    IF ~doc.present THEN "false"
    ELSE IF doc.expires_at.kind = "null" THEN "raised"
    ELSE IF TokenExpired(doc.expires_at, current_time) THEN "false"
    ELSE "true"

(***************************************************************************)
(* Spec: main()                                                            *)
(***************************************************************************)
\* the most runs of main
MaxRuns == 2

\* seconds that may lie between the starts of two runs: a second short of the
\* vendor token's lifetime, that lifetime, and save_token's 24 hour default
ClockSteps == { 60 * 60 - 1, 60 * 60, 24 * 60 * 60 }

\* the registries load_schools_from_file may return: name and guid, in file order
Registries ==
    { << >>,
      << [name |-> "Alpha", guid |-> "guid-a"] >>,
      << [name |-> "Alpha", guid |-> "guid-a"], [name |-> "Beta", guid |-> "guid-b"] >> }

\* the vendor records get_status returns in Spec
RunRecords ==
    { [applicationStatus |->
         << [applicationTitle |-> "JD", statusList |-> <<"Submitted">>,
             checklist |-> <<TRUE, TRUE, FALSE, FALSE, FALSE>>] >>],
      [applicationStatus |->
         << [applicationTitle |-> "JD", statusList |-> <<"Under Review", "Submitted">>,
             checklist |-> <<TRUE, TRUE, TRUE, FALSE, FALSE>>] >>] }

Init ==
    /\ now = 1000000
    /\ useSecrets \in BOOLEAN
    /\ historyFile = NoHistoryFile
    /\ StoresIdle
    /\ pc = "idle" /\ token = NoToken /\ guid = "none"
    /\ loadResult = "none" /\ loadedDoc = NoTokenDoc /\ loadedAt = 0
    /\ eventLog = << >> /\ schools = << >> /\ idx = 0 /\ run = 0
    /\ historyBefore = NoHistoryFile /\ attempted = << >>
    /\ lastOutcome = "none" /\ lastSaved = EmptyDoc
    /\ DetectIdle /\ PolicyIdle
    /\ RegistryIdle /\ ReportIdle

\* main() starts, some time after the run before it: checker = LSACChecker(),
\* the credentials are there, and load_schools_from_file gives the registry;
\* an empty one ends the run
StartRun ==
    /\ pc \in { "idle", "returned", "raised" }
    /\ run < MaxRuns
    /\ run' = run + 1
    /\ \/ run = 0 /\ now' = now
       \/ run > 0 /\ \E d \in ClockSteps : now' = now + d
    /\ token' = NoToken /\ guid' = "none"
    /\ loadResult' = "none" /\ loadedDoc' = NoTokenDoc /\ loadedAt' = 0
    /\ eventLog' = << >>
    /\ idx' = 0
    /\ \E reg \in Registries :
         /\ schools' = reg
         /\ pc' = IF reg = << >> THEN "returned" ELSE "load_token"
    /\ historyBefore' = historyFile /\ attempted' = << >> /\ lastOutcome' = "none"
    /\ lpc' = "idle" /\ response' = NoResponse /\ errorNotice' = "none"
    /\ UNCHANGED << useSecrets, historyFile, tokenStores, emailTracking, lastSaved >>
    /\ UNCHANGED detectVars
    /\ UNCHANGED << hasChanges, decision, seenTracking, lastSentAt, priorSentAt,
                    localOffset >>
    /\ UNCHANGED << schoolsFile, reportVars >>

\* `if not checker.load_token()`
LoadToken ==
    /\ pc = "load_token"
    /\ \E ioOk \in BOOLEAN :
         LET doc == LoadedTokenDoc(secret, tokenFile, useSecrets, ioOk)
             res == load_token(doc, now)
         IN  /\ loadedDoc' = doc
             /\ loadedAt' = now
             /\ loadResult' = res
             /\ token' = IF res = "true" THEN doc.token ELSE token
             /\ guid'  = IF res = "true" THEN doc.guid ELSE guid
             /\ pc' = CASE res = "true"   -> "loop"
                        [] res = "false"  -> "login"
                        [] res = "raised" -> "raised"
             /\ idx' = IF res = "true" THEN 1 ELSE idx
    /\ UNCHANGED << useSecrets, eventLog, schools, run, now, auditVars >>
    /\ UNCHANGED << historyFile, tokenStores, emailTracking, detectVars, policyVars >>
    /\ UNCHANGED << schoolsFile, reportVars >>

\* the calls of login in this run
LoginCount == Len(SelectSeq(eventLog, LAMBDA e : e.op = "login"))

\* mutant: a failed login is tried again
Login_RetryOnFailure ==
    /\ pc = "login"
    /\ eventLog' = Append(eventLog, [op |-> "login", token |-> NoToken])
    /\ \/ \E kind \in TokenKinds :
            /\ token' = IssuedToken(kind, now)
            /\ guid' = schools[1].guid
            /\ pc' = "save_token"
       \/ /\ pc' = IF LoginCount = 0 THEN "login" ELSE "raised"
          /\ UNCHANGED << token, guid >>
    /\ UNCHANGED << useSecrets, loadResult, loadedDoc, loadedAt, schools, idx, run, now,
                    auditVars >>
    /\ UNCHANGED << historyFile, tokenStores, emailTracking, detectVars, policyVars >>
    /\ UNCHANGED << schoolsFile, reportVars >>

\* await checker.login(username, password, first_guid): a token is captured,
\* or login raises (no token captured, a timeout) and main ends with it
Login ==
    /\ pc = "login"
    /\ eventLog' = Append(eventLog, [op |-> "login", token |-> NoToken])
    /\ \/ \E kind \in TokenKinds :
            /\ token' = IssuedToken(kind, now)
            /\ guid' = schools[1].guid
            /\ pc' = "save_token"
       \/ /\ pc' = "raised"
          /\ UNCHANGED << token, guid >>
    /\ UNCHANGED << useSecrets, loadResult, loadedDoc, loadedAt, schools, idx, run, now,
                    auditVars >>
    /\ UNCHANGED << historyFile, tokenStores, emailTracking, detectVars, policyVars >>
    /\ UNCHANGED << schoolsFile, reportVars >>

\* checker.save_token()
SaveToken ==
    /\ pc = "save_token"
    /\ \E smOk \in BOOLEAN, fileOk \in BOOLEAN :
         LET after == save_token(secret, tokenFile, useSecrets, token, guid, now, smOk, fileOk)
         IN  /\ secret' = after.secret
             /\ tokenFile' = after.file
             /\ persisted' = IF after.wrote = "none" THEN persisted
                              ELSE [wrote |-> after.wrote, doc |-> TokenPayload(token, guid, now)]
    /\ eventLog' = Append(eventLog, [op |-> "save_token", token |-> token])
    /\ pc' = "loop"
    /\ idx' = 1
    /\ UNCHANGED << useSecrets, token, guid, loadResult, loadedDoc, loadedAt, schools, run,
                    now, auditVars >>
    /\ UNCHANGED << historyFile, emailTracking, detectVars, policyVars >>
    /\ UNCHANGED << schoolsFile, reportVars >>

\* mutant: an HTTPError ends the loop
GetStatus_FailureEndsLoop ==
    /\ pc = "loop" /\ dpc = "idle"
    /\ idx <= Len(schools)
    /\ eventLog' = Append(eventLog, [op |-> "get_status", token |-> token])
    /\ school' = schools[idx].name
    /\ attempted' = Append(attempted, schools[idx].name)
    /\ historyBefore' = historyFile
    /\ \/ /\ data' \in RunRecords
          /\ dpc' = "fetched"
          /\ lastOutcome' = "none"
          /\ UNCHANGED idx
       \/ /\ idx' = Len(schools) + 1
          /\ lastOutcome' = "fetch_failed"
          /\ UNCHANGED << data, dpc >>
    /\ UNCHANGED << changes, histReadOk, firstRound, lastSaved >>
    /\ UNCHANGED << pc, useSecrets, token, guid, loadResult, loadedDoc, loadedAt, schools,
                    run, now >>
    /\ UNCHANGED << historyFile, tokenStores, emailTracking, policyVars >>
    /\ UNCHANGED << schoolsFile, reportVars >>

\* status = checker.get_status(school_guid) with the bearer token: the vendor's
\* record, or an HTTPError, caught, with which the loop goes on to the next target
GetStatus ==
    /\ pc = "loop" /\ dpc = "idle"
    /\ idx <= Len(schools)
    /\ eventLog' = Append(eventLog, [op |-> "get_status", token |-> token])
    /\ school' = schools[idx].name
    /\ attempted' = Append(attempted, schools[idx].name)
    /\ historyBefore' = historyFile
    /\ \/ /\ data' \in RunRecords
          /\ dpc' = "fetched"
          /\ lastOutcome' = "none"
          /\ UNCHANGED idx
       \/ /\ idx' = idx + 1
          /\ lastOutcome' = "fetch_failed"
          /\ UNCHANGED << data, dpc >>
    /\ UNCHANGED << changes, histReadOk, firstRound, lastSaved >>
    /\ UNCHANGED << pc, useSecrets, token, guid, loadResult, loadedDoc, loadedAt, schools,
                    run, now >>
    /\ UNCHANGED << historyFile, tokenStores, emailTracking, policyVars >>
    /\ UNCHANGED << schoolsFile, reportVars >>

\* changes = checker.check_for_changes(school_name, status)
CheckForChanges ==
    /\ pc = "loop" /\ dpc = "fetched"
    /\ \E ioOk \in BOOLEAN :
         /\ changes' = check_for_changes(historyFile, ioOk, school, data)
         /\ histReadOk' = HistoryReadable(historyFile, ioOk)
    /\ dpc' = "checked"
    /\ UNCHANGED << school, data, firstRound, mainVars >>
    /\ UNCHANGED << now, historyFile, tokenStores, emailTracking, policyVars >>
    /\ UNCHANGED << schoolsFile, reportVars >>

\* checker.display_status(status, school_name): prints, or raises on a field of
\* the record it cannot render (caught by `except Exception`, which skips the
\* save and goes on to the next target)
DisplayStatus ==
    /\ pc = "loop" /\ dpc = "checked"
    /\ \/ /\ dpc' = "displayed"
          /\ UNCHANGED << idx, data, changes, histReadOk, lastOutcome >>
       \/ /\ dpc' = "idle"
          /\ idx' = idx + 1
          /\ data' = NoRecord /\ changes' = << >> /\ histReadOk' = FALSE
          /\ lastOutcome' = "display_raised"
    /\ UNCHANGED << school, firstRound >>
    /\ UNCHANGED << pc, useSecrets, token, guid, loadResult, loadedDoc, loadedAt, eventLog,
                    schools, run, now, historyBefore, attempted, lastSaved >>
    /\ UNCHANGED << historyFile, tokenStores, emailTracking, policyVars >>
    /\ UNCHANGED << schoolsFile, reportVars >>

\* checker.save_status_history(school_name, status), the end of the loop body
SaveStatusHistory ==
    /\ pc = "loop" /\ dpc = "displayed"
    /\ \E readOk \in BOOLEAN, writeOk \in BOOLEAN :
         /\ historyFile' = save_status_history(historyFile, school, data, readOk, writeOk)
         /\ lastOutcome' = IF writeOk THEN "saved" ELSE "save_failed"
         /\ lastSaved' = IF writeOk THEN DocWith(lastSaved, school, StatusInfo(data))
                                    ELSE lastSaved
    /\ dpc' = "idle"
    /\ idx' = idx + 1
    /\ data' = NoRecord /\ changes' = << >> /\ histReadOk' = FALSE
    /\ UNCHANGED << school, firstRound >>
    /\ UNCHANGED << pc, useSecrets, token, guid, loadResult, loadedDoc, loadedAt, eventLog,
                    schools, run, now, historyBefore, attempted >>
    /\ UNCHANGED << tokenStores, emailTracking, policyVars >>
    /\ UNCHANGED << schoolsFile, reportVars >>

\* the loop is over: the summary is printed and main returns
FinishRun ==
    /\ pc = "loop" /\ dpc = "idle"
    /\ idx > Len(schools)
    /\ pc' = "returned"
    /\ UNCHANGED << useSecrets, token, guid, loadResult, loadedDoc, loadedAt, eventLog,
                    schools, idx, run, now, auditVars >>
    /\ UNCHANGED << historyFile, tokenStores, emailTracking, detectVars, policyVars >>
    /\ UNCHANGED << schoolsFile, reportVars >>

\* main() raised under lambda_handler: the handler's except branch
HandlerExcept ==
    /\ pc = "raised"
    /\ HandlerFails

Next ==
    \/ StartRun \/ LoadToken \/ Login \/ SaveToken
    \/ GetStatus \/ CheckForChanges \/ DisplayStatus \/ SaveStatusHistory
    \/ FinishRun \/ HandlerExcept

Spec == Init /\ [][Next]_vars

(***************************************************************************)
(* Claims about the token store and the run (under Spec)                   *)
(***************************************************************************)
\* load_token has run in the current run
TokenLoadDone == loadResult # "none"

\* C8: load_token reports no usable token when the stored expires_at is at or
\* before the current time, and loads the stored token and owner identifier
\* when it is strictly after.
C8_LoadTokenHonoursExpiry ==
    (TokenLoadDone /\ loadedDoc.present /\ loadedDoc.expires_at.kind = "int") =>
        /\ loadedDoc.expires_at.v <= loadedAt => loadResult = "false"
        /\ loadedDoc.expires_at.v > loadedAt =>
             /\ loadResult = "true"
             /\ token = loadedDoc.token
             /\ guid = loadedDoc.guid

C8_Witness ==
    /\ TokenLoadDone /\ loadedDoc.present
    /\ loadedDoc.expires_at = [kind |-> "int", v |-> loadedAt]
    /\ loadResult = "false"

\* C9: load_token never raises: whatever the token store holds, a record
\* save_token wrote for a decodable token without expiry claim included, it
\* gives the no-token outcome instead of an exception.
C9_LoadTokenNeverRaises == loadResult # "raised"

\* the run is past `if not checker.load_token(): login; save_token`
PastTokenStep ==
    \/ pc \in { "save_token", "loop", "raised" }
    \/ pc = "returned" /\ schools # << >>

\* every get_status of the run carries checker.token and, when the run logged
\* in, comes after the login and after the save_token of that token
FetchesUseTheRunsToken ==
    \A i \in DOMAIN eventLog :
        eventLog[i].op = "get_status" =>
            /\ eventLog[i].token = token
            /\ loadResult # "true" =>
                 \E j \in 1 .. (i - 1), k \in 1 .. (i - 1) :
                     /\ j < k
                     /\ eventLog[j].op = "login"
                     /\ eventLog[k] = [op |-> "save_token", token |-> token]

\* C10: in every run authentication is attempted at most once: zero times
\* when load_token yields an unexpired token, exactly once otherwise; the
\* attempt and the saving of its token precede the first fetch, and every
\* fetch of the run uses that token.
C10_OneAuthenticationPerRun ==
    /\ LoginCount <= 1
    /\ loadResult = "true" => LoginCount = 0
    /\ (PastTokenStep /\ loadResult # "true") => LoginCount = 1
    /\ FetchesUseTheRunsToken

\* the same for the runs in which load_token returns
OneAuthenticationWhenLoadTokenReturns ==
    /\ LoginCount <= 1
    /\ loadResult = "true" => LoginCount = 0
    /\ (PastTokenStep /\ loadResult = "false") => LoginCount = 1
    /\ FetchesUseTheRunsToken

\* the calls of get_status in this run
FetchCount == Len(SelectSeq(eventLog, LAMBDA e : e.op = "get_status"))

\* load_token found no usable token and login raised: main has ended with the
\* exception
AuthFailed == pc = "raised" /\ loadResult = "false"

\* C11: when no valid token is stored and login fails, the run ends there: no
\* get_status was called, the history file and the email tracking are as the
\* run found them, login was called once, and the caller gets the exception,
\* which lambda_handler turns into a 500 response, never a 200.
C11_AuthFailureAbortsRun ==
    AuthFailed =>
        /\ LoginCount = 1
        /\ FetchCount = 0 /\ attempted = << >>
        /\ historyFile = historyBefore
        /\ emailTracking = NoTracking
        /\ lpc \in { "idle", "returned_500" }

C11_Witness ==
    /\ AuthFailed
    /\ run = 2 /\ historyFile.exists
    /\ lpc = "returned_500"

\* the registry's names, in registry order, up to the n-th
NamesUpTo(n) == [ i \in 1 .. n |-> schools[i].name ]

\* the processing of `school` ended in an exception the loop caught
TargetFailed == dpc = "idle" /\ lastOutcome \in { "fetch_failed", "display_raised" }

\* C12: a target that fails (get_status raises, or the record cannot be
\* rendered) does not end the run: the targets get_status was called for are
\* the registry's, each once and in registry order, up to the one in hand,
\* and all of them once main has returned; after a failure the run is still
\* in its loop or has returned normally, and the history file is as it was
\* when the failed target's processing began.
C12_TargetFailureNotFatal ==
    /\ pc = "loop" =>
         /\ attempted = NamesUpTo(IF dpc = "idle" THEN idx - 1 ELSE idx)
         /\ FetchCount = Len(attempted)
    /\ (pc = "returned" /\ schools # << >>) =>
         /\ attempted = NamesUpTo(Len(schools))
         /\ FetchCount = Len(schools)
    /\ TargetFailed =>
         /\ pc \in { "loop", "returned" }
         /\ historyFile = historyBefore

C12_Witness ==
    /\ pc = "loop" /\ TargetFailed
    /\ Len(schools) = 2 /\ idx = 2 /\ school = "Alpha"
    /\ historyFile.exists /\ "Alpha" \in DOMAIN historyFile.doc

\* the document of the store load_token reads in this configuration
ConfiguredDoc == IF useSecrets THEN secret.token_data ELSE tokenFile.doc

\* load_token has run, its read succeeded, and save_token has not run yet in
\* this run: what save_token last persisted dates from an earlier run
LoadedBeforeSaving ==
    /\ TokenLoadDone
    /\ loadedDoc = ConfiguredDoc
    /\ \A i \in DOMAIN eventLog : eventLog[i].op # "save_token"

\* C22: a token save_token persisted is what a later load_token in the same
\* configuration returns, with its owner identifier, as long as it has not
\* expired, whether it went into the secret, into the token file, or into the
\* token file because the write to the secret failed; and the secret's
\* credential fields stay as they were.
C22_SavedTokenIsLoadedBack ==
    /\ secret.username = CredentialsOnly.username
    /\ secret.password = CredentialsOnly.password
    /\ ( /\ LoadedBeforeSaving
         /\ persisted.wrote # "none"
         /\ persisted.doc.expires_at.kind = "int"
         /\ persisted.doc.expires_at.v > loadedAt )
       => /\ loadResult = "true"
          /\ token = persisted.doc.token
          /\ guid = persisted.doc.guid

\* C23: the expires_at save_token persists is the token's exp claim when the
\* token decodes, the time of saving plus 24 hours (86400 seconds) when it
\* does not, and in every case an integer.
C23_ExpiresAtFromClaimOrDefault ==
    persisted.wrote # "none" =>
        /\ persisted.doc.expires_at.kind = "int"
        /\ persisted.doc.token.kind \in { "jwt_exp", "jwt_noexp" } =>
              persisted.doc.expires_at.v = persisted.doc.token.exp
        /\ persisted.doc.token.kind = "opaque" =>
              persisted.doc.expires_at.v = persisted.doc.token.iat + 86400

\* the step that ends the processing of a target whose fetch succeeded, the
\* store write, where one is made, succeeding
FetchedTargetDone ==
    /\ pc = "loop"
    /\ dpc \in { "fetched", "checked", "displayed" }
    /\ dpc' = "idle"
    /\ lastOutcome' # "save_failed"

\* C19: when the run moves on from a target whose fetch succeeded (store
\* writes succeeding), the target's stored snapshot is the normalization of
\* the fetched record: no step between change detection and persisting,
\* rendering the status report included, leaves the old snapshot in place.
C19_SnapshotReplacedAfterFetch ==
    [][ FetchedTargetDone =>
          /\ historyFile'.exists
          /\ school \in DOMAIN historyFile'.doc
          /\ historyFile'.doc[school] = StatusInfo(data) ]_vars

\* C20: persisting one target's snapshot changes that target's entry only:
\* whatever the runs and the store failures so far, every target's stored
\* snapshot is the one its own most recent successful save persisted.
C20_SaveTouchesOnlyItsEntry ==
    \A name \in DOMAIN lastSaved :
        /\ historyFile.exists
        /\ name \in DOMAIN historyFile.doc
        /\ historyFile.doc[name] = lastSaved[name]

(***************************************************************************)
(* Target registry: load_schools_from_file                                 *)
(*                                                                         *)
(* A line of SCHOOLS_FILE is a sequence of tokens: one character where the *)
(* parser looks at characters (blank, newline, "#", "|", "&", "%", a hex   *)
(* digit after "%"), the link head and "guid=" as tokens of their own, and *)
(* runs of other text. A run of several characters never follows "%".      *)
(***************************************************************************)
\* the most lines in SCHOOLS_FILE
MaxLines == 2

UrlHead == "https://x/"

Whitespace == { " ", "\n" }

\* a guid value as it stands in a link, and the value it encodes
GuidCases ==
    { [text |-> <<"abc">>, once |-> <<"abc">>],
      [text |-> <<"abc", "%", "3", "d">>, once |-> <<"abc", "=">>],
      [text |-> <<"abc", "%", "2", "5", "3", "d">>, once |-> <<"abc", "%", "3", "d">>] }

PlainGuid == [text |-> <<"abc">>, once |-> <<"abc">>]

\* links: without query, with another parameter only, with the guid parameter
\* alone, after and before another parameter
GuidQueries == { "guid", "other_guid", "guid_other" }

Links ==
    { l \in [query : { "none", "other" } \cup GuidQueries, guid : GuidCases] :
        l.query \notin GuidQueries => l.guid = PlainGuid }

NoLink == [query |-> "none", guid |-> PlainGuid]

LinkText(l) ==
    <<UrlHead>> \o
    CASE l.query = "none"       -> << >>
      [] l.query = "other"      -> <<"?", "id=", "7">>
      [] l.query = "guid"       -> <<"?", "guid=">> \o l.guid.text
      [] l.query = "other_guid" -> <<"?", "id=", "7", "&", "guid=">> \o l.guid.text
      [] l.query = "guid_other" -> <<"?", "guid=">> \o l.guid.text \o <<"&", "id=", "7">>

SchoolNames == { "Yale Law School", "Cooley Law School" }

\* the lines of the three documented shapes, comments and blank lines
FileLines ==
    [kind : {"pipe"}, name : SchoolNames, padded : BOOLEAN, link : Links]
    \cup [kind : {"link"}, name : {"-"}, padded : {FALSE},
          link : { l \in Links : l.guid = PlainGuid /\ l.query \in {"none", "guid"} }]
    \cup [kind : {"name"}, name : SchoolNames, padded : {FALSE}, link : {NoLink}]
    \cup [kind : {"comment", "blank"}, name : {"-"}, padded : {FALSE}, link : {NoLink}]

\* the text of a line as readlines() gives it
LineText(ln) ==
    ( CASE ln.kind = "pipe" ->
             IF ln.padded
             THEN <<" ", ln.name, " ", "|", " ">> \o LinkText(ln.link) \o <<" ">>
             ELSE <<ln.name, "|">> \o LinkText(ln.link)
        [] ln.kind = "link"    -> LinkText(ln.link)
        [] ln.kind = "name"    -> <<ln.name>>
        [] ln.kind = "comment" -> <<"#", " ", "my schools">>
        [] ln.kind = "blank"   -> <<" ">> )
    \o <<"\n">>

\* str.strip(chars)
RECURSIVE StripLeft(_, _)
StripLeft(text, chars) ==
    IF text # << >> /\ Head(text) \in chars THEN StripLeft(Tail(text), chars) ELSE text

RECURSIVE StripRight(_, _)
StripRight(text, chars) ==
    IF text # << >> /\ text[Len(text)] \in chars
    THEN StripRight(SubSeq(text, 1, Len(text) - 1), chars)
    ELSE text

Strip(text, chars) == StripRight(StripLeft(text, chars), chars)

\* str.startswith
StartsWith(text, tok) == text # << >> /\ Head(text) = tok

\* the index of the first tok of text, 0 when there is none
IndexOf(text, tok) ==
    IF \E i \in DOMAIN text : text[i] = tok
    THEN CHOOSE i \in DOMAIN text :
            /\ text[i] = tok
            /\ \A j \in DOMAIN text : text[j] = tok => i <= j
    ELSE 0

\* the longest run of [^&\s] at the start of text
RECURSIVE ValueRun(_)
ValueRun(text) ==
    IF text = << >> \/ Head(text) \in Whitespace \cup {"&"} THEN << >>
    ELSE <<Head(text)>> \o ValueRun(Tail(text))

\* re.search(r'guid=([^&\s]+)', link): the leftmost "guid=" with a value after it
guid_match(link) ==
    LET starts == { i \in 1 .. (Len(link) - 1) :
                      link[i] = "guid=" /\ link[i + 1] \notin Whitespace \cup {"&"} }
    IN  IF starts = {} THEN [matched |-> FALSE, group |-> << >>]
        ELSE LET i == CHOOSE a \in starts : \A b \in starts : a <= b
             IN  [matched |-> TRUE, group |-> ValueRun(SubSeq(link, i + 1, Len(link)))]

HexDigits == { "0", "1", "2", "3", "4", "5", "6", "7", "8", "9",
               "a", "b", "c", "d", "e", "f", "A", "B", "C", "D", "E", "F" }

\* the character a %XX escape stands for
EscapedChar(h1, h2) ==
    CASE h1 = "3" /\ h2 \in {"d", "D"} -> "="
      [] h1 = "2" /\ h2 = "5"          -> "%"
      [] h1 = "2" /\ h2 = "6"          -> "&"
      [] h1 = "2" /\ h2 = "0"          -> " "
      [] OTHER                         -> "<another character>"

\* one pass over the text, each %XX replaced by its character
RECURSIVE PercentDecode(_)
PercentDecode(text) ==
    IF text = << >> THEN << >>
    ELSE IF /\ Head(text) = "%" /\ Len(text) >= 3
            /\ text[2] \in HexDigits /\ text[3] \in HexDigits
         THEN <<EscapedChar(text[2], text[3])>> \o PercentDecode(SubSeq(text, 4, Len(text)))
         ELSE <<Head(text)>> \o PercentDecode(Tail(text))

\* mutant: the value is decoded twice
unquote_Twice(text) == PercentDecode(PercentDecode(text))

\* urllib.parse.unquote(guid)
unquote(text) == PercentDecode(text)

\* f'School_{len(schools) + 1}'
Placeholder(n) == <<"School_", ToString(n)>>

\* schools[school_name] = guid: a dict keeps a key's first position
Put(reg, school_name, g) ==
    IF \E i \in DOMAIN reg : reg[i].name = school_name
    THEN [ i \in DOMAIN reg |->
             IF reg[i].name = school_name THEN [name |-> school_name, guid |-> g]
             ELSE reg[i] ]
    ELSE Append(reg, [name |-> school_name, guid |-> g])

\* the `while i < len(lines)` loop, from line i on (1-based here)
RECURSIVE ParseFrom(_, _, _)
ParseFrom(lines, i, reg) ==
    IF i > Len(lines) THEN reg
    ELSE
      LET line      == Strip(lines[i], Whitespace)
          piped     == IndexOf(line, "|") # 0
          k         == IndexOf(line, "|")
          prev_line == Strip(lines[i - 1], Whitespace)
          named     == /\ i > 1 /\ prev_line # << >>
                       /\ ~StartsWith(prev_line, "#") /\ ~StartsWith(prev_line, UrlHead)
          school_name == IF piped THEN Strip(SubSeq(line, 1, k - 1), Whitespace)
                         ELSE IF named THEN prev_line ELSE << >>
          link      == IF piped THEN Strip(SubSeq(line, k + 1, Len(line)), Whitespace)
                       ELSE line
          m         == guid_match(link)
      IN  IF line = << >> \/ StartsWith(line, "#") THEN ParseFrom(lines, i + 1, reg)
          ELSE IF ~piped /\ ~StartsWith(line, UrlHead) THEN ParseFrom(lines, i + 1, reg)
          ELSE IF link # << >> /\ m.matched
          THEN ParseFrom(lines, i + 1,
                         Put(reg,
                             IF school_name = << >> THEN Placeholder(Len(reg) + 1)
                             ELSE school_name,
                             unquote(m.group)))
          ELSE ParseFrom(lines, i + 1, reg)

\* load_schools_from_file(): the mapping it returns, in insertion order, and the
\* message it prints
load_schools_from_file(file) ==
    CASE file.state = "missing" ->
           [schools |-> << >>, printed |-> "not found!"]
      [] file.state = "unreadable" ->
           [schools |-> << >>, printed |-> "Error loading schools file"]
      [] file.state = "readable" ->
           [schools |-> ParseFrom([i \in DOMAIN file.lines |-> LineText(file.lines[i])],
                                  1, << >>),
            printed |-> "Loaded"]

SchoolsFiles ==
    { NoSchoolsFile, [state |-> "unreadable", lines |-> << >>] }
    \cup { [state |-> "readable", lines |-> ls] : ls \in SeqUpTo(FileLines, MaxLines) }

InitRegistry ==
    /\ schoolsFile \in SchoolsFiles
    /\ historyFile = NoHistoryFile
    /\ StoresIdle /\ now = 0
    /\ DetectIdle /\ MainIdle /\ PolicyIdle /\ ReportIdle

\* main() from its start to `if not schools: return`
LoadSchools ==
    /\ pc = "idle"
    /\ schools' = load_schools_from_file(schoolsFile).schools
    /\ pc' = IF schools' = << >> THEN "returned" ELSE "load_token"
    /\ UNCHANGED << useSecrets, token, guid, loadResult, loadedDoc, loadedAt, eventLog,
                    idx, run, auditVars >>
    /\ UNCHANGED << historyFile, tokenStores, emailTracking, now, schoolsFile >>
    /\ UNCHANGED << detectVars, policyVars, reportVars >>

NextRegistry == LoadSchools

SpecRegistry == InitRegistry /\ [][NextRegistry]_vars

(***************************************************************************)
(* Claims about the registry (under SpecRegistry)                          *)
(***************************************************************************)
\* load_schools_from_file has returned
SchoolsLoaded == pc # "idle"

\* C15: a readable source with zero valid entries gives main a value that
\* differs from the one a missing source gives and from the one an unreadable
\* source gives.
C15_EmptyDistinctFromUnreadable ==
    (SchoolsLoaded /\ schoolsFile.state = "readable" /\ schools = << >>) =>
        /\ schools # load_schools_from_file(NoSchoolsFile).schools
        /\ schools # load_schools_from_file([state |-> "unreadable", lines |-> << >>]).schools

\* the line is the only one of the file that carries its name
SoleName(i) ==
    \A j \in DOMAIN schoolsFile.lines :
        j # i => schoolsFile.lines[j].name # schoolsFile.lines[i].name

EntriesNamed(n) == { i \in DOMAIN schools : schools[i].name = n }

ExampleLine ==
    [kind |-> "pipe", name |-> "Yale Law School", padded |-> TRUE,
     link |-> [query |-> "guid", guid |-> [text |-> <<"abc", "%", "3", "d">>,
                                            once |-> <<"abc", "=">>]]]

MaxNamedLines == 3

\* a bare link with a guid, a bare link without, the name lines, a pipe line,
\* a comment, a blank line
NamedLinkLines ==
    { ln \in FileLines :
        /\ ~ln.padded
        /\ ln.link.guid = PlainGuid /\ ln.link.query \in { "none", "guid" }
        /\ ln.kind = "pipe" => (ln.name = "Yale Law School" /\ ln.link.query = "guid") }

InitNamedLinks ==
    /\ schoolsFile \in
         { [state |-> "readable", lines |-> ls] : ls \in SeqUpTo(NamedLinkLines, MaxNamedLines) }
    /\ historyFile = NoHistoryFile
    /\ StoresIdle /\ now = 0
    /\ DetectIdle /\ MainIdle /\ PolicyIdle /\ ReportIdle

SpecNamedLinks == InitNamedLinks /\ [][NextRegistry]_vars

(***************************************************************************)
(* Claims about bare links (under SpecNamedLinks)                          *)
(***************************************************************************)
\* the lines before line i that are not comments
NonCommentBefore(i) == { j \in 1 .. (i - 1) : schoolsFile.lines[j].kind # "comment" }

\* the immediately preceding non-comment line of line i, 0 when there is none
PrecedingNonComment(i) ==
    IF NonCommentBefore(i) = {} THEN 0
    ELSE CHOOSE j \in NonCommentBefore(i) : \A k \in NonCommentBefore(i) : k <= j

\* the text of a line without the blanks and the newline around it
Trimmed(ln) == Strip(LineText(ln), Whitespace)

\* C24: a bare link with a guid gives an entry named after the immediately
\* preceding non-comment line when there is one and it is neither blank nor a
\* link (so a name line, a comment line, then the link give that name), and
\* an entry named School_<n> otherwise.
C24_BareLinkTakesPrecedingName ==
    (SchoolsLoaded /\ schoolsFile.state = "readable") =>
        \A i \in DOMAIN schoolsFile.lines :
            LET ln == schoolsFile.lines[i]
                j  == PrecedingNonComment(i)
            IN  (ln.kind = "link" /\ ln.link.query = "guid") =>
                   IF j # 0 /\ schoolsFile.lines[j].kind \notin { "blank", "link" }
                   THEN \E e \in EntriesNamed(Trimmed(schoolsFile.lines[j])) :
                           schools[e].guid = ln.link.guid.once
                   ELSE \E n \in 1 .. i : \E e \in EntriesNamed(Placeholder(n)) :
                           schools[e].guid = ln.link.guid.once

(***************************************************************************)
(* Subject line: what main prints and what lambda_handler makes of it      *)
(*                                                                         *)
(* The captured output is a sequence of lines, a line a sequence of        *)
(* tokens: the texts the handler searches for ("Fetching status for",      *)
(* "CHANGES DETECTED", "FOR", the alert sign, "!", a blank) are tokens of  *)
(* their own, and a name is cut where it contains one of them. The signs   *)
(* main prints are written [alert], [party], [cross], [check].             *)
(***************************************************************************)
\* the most targets in the registry of SpecSubject
MaxTargets == 2

\* registry names: Yale, Stanford, Fordham
TargetNames == { <<"Yale">>, <<"Stan", "for", "d">>, <<"For", "dham">> }

\* str.upper(), token by token
Upper(tok) ==
    CASE tok = "Yale" -> "YALE"
      [] tok = "Stan" -> "STAN"
      [] tok = "for"  -> "FOR"
      [] tok = "For"  -> "FOR"
      [] tok = "d"    -> "D"
      [] tok = "dham" -> "DHAM"
      [] OTHER        -> tok

UpperName(name) == [ i \in DOMAIN name |-> Upper(name[i]) ]

\* how the processing of a target ended: check_for_changes returned changes,
\* returned none, or the loop body raised
Outcomes == { "changed", "unchanged", "failed" }

\* print(f'Fetching status for {school_name}...')
FetchingLine(name) == <<"Fetching status for", " ">> \o name \o <<"...">>

\* print('\n' + '[alert] ' * 10)
AlertLine == <<"[alert]", " ">>

\* print(f'[party] CHANGES DETECTED FOR {school_name.upper()}!')
ChangesLine(name) ==
    <<"[party]", " ", "CHANGES DETECTED", " ", "FOR", " ">> \o UpperName(name) \o <<"!">>

\* the lines the loop body prints for one target (display_status prints the
\* vendor's record, which holds none of the texts searched for)
TargetLines(r) ==
    <<FetchingLine(r.name)>> \o
    CASE r.outcome = "changed" ->
           << AlertLine, ChangesLine(r.name), AlertLine, <<"Status Update">>, AlertLine >>
      [] r.outcome = "failed" ->
           << <<"[cross]", " ", "Error checking", " ">> \o r.name >>
      [] r.outcome = "unchanged" -> << >>

RECURSIVE LoopLines(_)
LoopLines(res) ==
    IF res = << >> THEN << >> ELSE TargetLines(Head(res)) \o LoopLines(Tail(res))

\* what main prints in a run with these targets and outcomes; with an empty
\* registry it returns after load_schools_from_file's message
MainOutput(res) ==
    IF res = << >> THEN << <<"[check]", " ", "Loaded 0 school(s)">> >>
    ELSE << <<"[books]", " ", "Checking status for", " ", ToString(Len(res)), " school(s)...">> >>
         \o LoopLines(res)
         \o (IF \E i \in DOMAIN res : res[i].outcome = "changed"
             THEN << <<"Summary of Changes Detected:">> >>
             ELSE << <<"No changes detected across all schools.">> >>)
         \o << <<"[check]", " ", "Done!">> >>

\* output.count(tok)
RECURSIVE CountIn(_, _)
CountIn(lines, tok) ==
    IF lines = << >> THEN 0
    ELSE Cardinality({ i \in DOMAIN Head(lines) : Head(lines)[i] = tok })
         + CountIn(Tail(lines), tok)

\* pattern in line
Contains(line, pattern) ==
    \E i \in 1 .. (Len(line) - Len(pattern) + 1) :
        SubSeq(line, i, i + Len(pattern) - 1) = pattern

\* line.split(tok)
RECURSIVE SplitOn(_, _)
SplitOn(line, tok) ==
    LET k == IndexOf(line, tok)
    IN  IF k = 0 THEN <<line>>
        ELSE <<SubSeq(line, 1, k - 1)>> \o SplitOn(SubSeq(line, k + 1, Len(line)), tok)

\* the loop `for line in lines: if 'CHANGES DETECTED FOR' in line: ... break`
ExtractedName(lines) ==
    LET hits == { i \in DOMAIN lines : Contains(lines[i], <<"CHANGES DETECTED", " ", "FOR">>) }
    IN  IF hits = {} THEN << >>
        ELSE LET i == CHOOSE a \in hits : \A b \in hits : a <= b
             IN  Strip(Strip(SplitOn(lines[i], "FOR")[2], {"!"}), Whitespace)

\* has_changes = '[alert]' in output
HasAlert(lines) == CountIn(lines, "[alert]") > 0

\* the subject line lambda_handler composes from the captured output
SubjectOf(lines) ==
    LET has_changes      == HasAlert(lines)
        schools_checked  == CountIn(lines, "Fetching status for")
        changes_detected == CountIn(lines, "CHANGES DETECTED")
        school_name      == ExtractedName(lines)
    IN  IF has_changes
        THEN IF changes_detected = 1
             THEN IF school_name # << >>
                  THEN [text |-> "[alert] LSAC Update: {school_name}",
                        name |-> school_name, count |-> 0]
                  ELSE [text |-> "[alert] LSAC Status Update Detected",
                        name |-> << >>, count |-> 0]
             ELSE [text |-> "[alert] LSAC Updates: {changes_detected} Schools Changed",
                   name |-> << >>, count |-> changes_detected]
        ELSE IF schools_checked > 0
             THEN [text |-> "[check] LSAC Check Complete ({schools_checked} Schools - No Changes)",
                   name |-> << >>, count |-> schools_checked]
             ELSE [text |-> "LSAC Status Check Complete", name |-> << >>, count |-> 0]

\* the runs of main: the registry's targets, each name once, and their outcomes
MainResults ==
    { res \in SeqUpTo([name : TargetNames, outcome : Outcomes], MaxTargets) :
        \A i, j \in DOMAIN res : i # j => res[i].name # res[j].name }

InitSubject ==
    /\ results \in MainResults
    /\ output = << >>
    /\ subject = NoSubject
    /\ historyFile = NoHistoryFile
    /\ StoresIdle /\ now = 0
    /\ DetectIdle /\ MainIdle /\ PolicyIdle /\ RegistryIdle

\* asyncio.run(lsac_main()); output = captured_output.getvalue()
MainPrints ==
    /\ lpc = "idle"
    /\ output' = MainOutput(results)
    /\ lpc' = "main_returned"
    /\ UNCHANGED << results, subject, hasChanges, decision, response, seenTracking,
                    lastSentAt, priorSentAt, localOffset, errorNotice >>
    /\ UNCHANGED << historyFile, tokenStores, emailTracking, now, schoolsFile >>
    /\ UNCHANGED << detectVars, mainVars >>

\* lambda_handler from `has_changes = ...` to the subject line
ComposeSubject ==
    /\ lpc = "main_returned"
    /\ hasChanges' = HasAlert(output)
    /\ subject' = SubjectOf(output)
    /\ lpc' = "composed"
    /\ UNCHANGED << results, output, decision, response, seenTracking, lastSentAt,
                    priorSentAt, localOffset, errorNotice >>
    /\ UNCHANGED << historyFile, tokenStores, emailTracking, now, schoolsFile >>
    /\ UNCHANGED << detectVars, mainVars >>

NextSubject == MainPrints \/ ComposeSubject

SpecSubject == InitSubject /\ [][NextSubject]_vars

(***************************************************************************)
(* Claims about the subject line (under SpecSubject)                       *)
(***************************************************************************)
\* the targets of the run for which changes were detected
ChangedTargets == { i \in DOMAIN results : results[i].outcome = "changed" }

\* C16: with exactly one changed target the subject carries that target's
\* whole name (in capitals, as main prints it), for every name; with several
\* it carries their number; with none, and at least one target checked, it
\* carries the number of targets checked.
C16_SubjectFollowsSelectionRule ==
    lpc = "composed" =>
        /\ Cardinality(ChangedTargets) = 1 =>
             \A i \in ChangedTargets : subject.name = UpperName(results[i].name)
        /\ Cardinality(ChangedTargets) > 1 =>
             /\ subject.text = "[alert] LSAC Updates: {changes_detected} Schools Changed"
             /\ subject.count = Cardinality(ChangedTargets)
        /\ (ChangedTargets = {} /\ results # << >>) =>
             /\ subject.text = "[check] LSAC Check Complete ({schools_checked} Schools - No Changes)"
             /\ subject.count = Len(results)

====
